---- MODULE Spec2Model ----
(***************************************************************************)
(* Model of the batch audio-generation engine of text-to-voice:            *)
(* TTSGenerator (src/src/core/tts_generator.py).  One engine instance, its *)
(* cancellation flag, and batch_generate runs of concurrently scheduled    *)
(* process_task coroutines under an asyncio.Semaphore.  cancel() and       *)
(* reset() are called from another thread (the GUI thread), so they        *)
(* interleave with every step of the coroutines.  BatchTab                 *)
(* (src/src/gui/batch_tab.py) builds the tasks from the records of a CSV   *)
(* file with FileManager.process_output_path and keeps the ledger of       *)
(* outcomes.  _get_text_preview and process_output_path are also followed  *)
(* on their own (PureSpec).                                                *)
(***************************************************************************)
EXTENDS Integers, Sequences, FiniteSets, TLC

(* ------------------------------ bounds -------------------------------- *)
\* Largest number of tasks in one batch.
MaxTasks == 2
\* Largest max_concurrent passed to batch_generate.
MaxConcurrent == 2
\* Number of batch_generate and generate_audio_async calls made on the
\* engine instance.
MaxRuns == 2
\* Largest max_retries passed to generate_audio_async by a direct caller.
MaxRetries == 6
\* Largest number of records of the CSV file BatchTab reads.
MaxRows == 2
\* Longest text handed to _get_text_preview.
MaxTextLen == 52
\* Longest file_path (in characters) and largest row number handed to
\* FileManager.process_output_path.
MaxHintLen == 5
MaxOrdinal == 12

(* ------------------------- program constants -------------------------- *)
\* generate_audio_async(..., max_retries: int = 3); process_task uses the default.
MAX_RETRIES == 3

\* _get_text_preview(self, text, max_length: int = 50)
MAX_LENGTH == 50
\* CSVProcessor.add_record: answer_text[:50] and len(answer_text) > 50
PREVIEW_LENGTH == 50

\* FileManager.process_output_path: the width of f"{index:04d}", the suffix
\* '.mp3' used when the path has none, and AppConfig.output_dir, which
\* BatchTab passes as default_output_dir.
FORMAT_WIDTH == 4
DEFAULT_SUFFIX == << ".", "mp3" >>
DEFAULT_OUTPUT_DIR == << "output_audio" >>

\* TTSGenerator.FALLBACK_VOICES
FALLBACK_VOICES ==
    << "zh-CN-XiaoxiaoNeural", "zh-CN-YunxiNeural", "zh-CN-XiaoyiNeural", "zh-CN-YunjianNeural" >>

\* Primary voices an engine is constructed with: the default voice (the
\* first of the fallback list), the second of the list, and one voice
\* outside the list.
PrimaryVoices == { "zh-CN-XiaoxiaoNeural", "zh-CN-YunxiNeural", "en-US-AriaNeural" }

\* TTSGenerator.__init__: the default rate and volume, and the pitch for
\* which no pitch argument is passed to the client (lines 42-44, 118).
DEFAULT_RATE == "+0%"
DEFAULT_VOLUME == "+0%"
DEFAULT_PITCH == "default"

\* TTSGenerator(voice, rate, volume, pitch)
EngineConfig(v, r, vol, p) == [voice |-> v, rate |-> r, volume |-> vol, pitch |-> p]

\* The engines a caller other than BatchTab constructs: one for every
\* primary voice, two with the constructor's default rate, volume and pitch
\* and one with a rate, a volume and a pitch of its own.
CallerConfigs ==
    { EngineConfig("zh-CN-XiaoxiaoNeural", DEFAULT_RATE, DEFAULT_VOLUME, DEFAULT_PITCH),
      EngineConfig("zh-CN-YunxiNeural", DEFAULT_RATE, DEFAULT_VOLUME, DEFAULT_PITCH),
      EngineConfig("en-US-AriaNeural", "-22%", "+50%", "high") }

\* BatchTab._on_generate, lines 215-220: the engines BatchTab constructs
\* from ConfigPanel.get_config (components.py, lines 614-620), whose pitch
\* is always 'default': the defaults of TTSConfig (config.py, lines 14-22)
\* and another voice with the sliders moved.
PanelConfigs ==
    { EngineConfig("zh-CN-XiaoxiaoNeural", "-22%", "+50%", DEFAULT_PITCH),
      EngineConfig("en-US-AriaNeural", "+0%", "+100%", DEFAULT_PITCH) }

\* An error text is a sequence of pieces; << >> is the empty string "".
NO_ERROR == << >>
\* "任务已取消", the fixed message of a cancelled task.
TASK_CANCELLED == << "task cancelled" >>
\* f"所有音色都失败，最后错误: {last_error}"
AllVoicesFailed(last_error) == << "all voices failed, last error: ", last_error >>
\* str(e) of the exception the synthesis client raised for the call made
\* with voice v.  The code only stores and formats this text, so one
\* message per call, told apart by the call's voice, stands for any text.
ClientError(v) == << "client error, voice ", v >>
\* '文本内容为空', the message BatchTab records for a row without text.
EMPTY_TEXT == << "text is empty" >>
\* str(e) of an OSError raised by os.makedirs for a directory it cannot create.
MAKEDIRS_FAULT == << "makedirs: permission denied" >>
\* str(e) of the FileExistsError os.makedirs raises for an existing
\* directory when exist_ok is false.
FILE_EXISTS_FAULT == << "makedirs: file exists" >>
\* str(e) of an exception raised by the progress callback.
CALLBACK_FAULT == << "progress callback raised" >>

(* ------------------------- strings and paths -------------------------- *)
\* A text or a path is a sequence of characters (a name without "/" and "."
\* may stand as one piece).  The operators below are the POSIX versions of
\* os.path and pathlib that FileManager and the engine call.

\* str.rfind(c), counted from 1: the last position of c in s, 0 if there is none.
RFind(s, c) ==
    LET found == { i \in 1..Len(s) : s[i] = c } IN
    IF found = {} THEN 0 ELSE CHOOSE i \in found : \A j \in found : j <= i

\* str.find(c), counted from 1: the first position of c in s, 0 if there is none.
Find(s, c) ==
    LET found == { i \in 1..Len(s) : s[i] = c } IN
    IF found = {} THEN 0 ELSE CHOOSE i \in found : \A j \in found : i <= j

\* os.path.join(a, b): b replaces a when it is absolute, else it is added
\* after a separator (none if a is empty or ends with one).
os_path_join(a, b) ==
    IF b # << >> /\ b[1] = "/" THEN b
    ELSE IF a = << >> \/ a[Len(a)] = "/" THEN a \o b
    ELSE a \o << "/" >> \o b

\* os.path.dirname(p): everything up to the last "/", without trailing
\* separators unless it consists of separators only.
RECURSIVE RStripSep(_)
RStripSep(s) ==
    IF s # << >> /\ s[Len(s)] = "/" THEN RStripSep(SubSeq(s, 1, Len(s) - 1)) ELSE s

os_path_dirname(p) ==
    LET head == SubSeq(p, 1, RFind(p, "/")) IN
    IF RStripSep(head) = << >> THEN head ELSE RStripSep(head)

\* pathlib: the pieces of s between the separators.
RECURSIVE Split(_)
Split(s) ==
    LET i == Find(s, "/") IN
    IF i = 0 THEN << s >>
    ELSE << SubSeq(s, 1, i - 1) >> \o Split(SubSeq(s, i + 1, Len(s)))

\* pathlib: the root of a path: "" for a relative path, "//" for exactly
\* two leading separators, "/" otherwise.
PathRoot(s) ==
    LET lead == Len(s) - Len(RStripSep([i \in 1..Len(s) |-> s[Len(s) + 1 - i]])) IN
    IF lead = 0 THEN << >>
    ELSE IF lead = 2 THEN << "/", "/" >>
    ELSE << "/" >>

\* pathlib: the components of a path: empty pieces and "." are dropped.
PathParts(s) == SelectSeq(Split(s), LAMBDA c : c # << >> /\ c # << "." >>)

\* str(Path): the root and the components joined by "/"; "." for nothing.
RECURSIVE JoinParts(_)
JoinParts(parts) ==
    IF parts = << >> THEN << >>
    ELSE IF Len(parts) = 1 THEN parts[1]
    ELSE parts[1] \o << "/" >> \o JoinParts(Tail(parts))

PathStr(root, parts) ==
    IF root = << >> /\ parts = << >> THEN << "." >> ELSE root \o JoinParts(parts)

\* Path(s).name: the last component, "" if there is none.
PathName(s) ==
    IF PathParts(s) = << >> THEN << >> ELSE PathParts(s)[Len(PathParts(s))]

\* Path(s).suffix: from the last "." of the name on, if that "." is neither
\* the first nor the last character of the name.
PathSuffix(s) ==
    LET name == PathName(s)
        i == RFind(name, ".") IN
    IF 1 < i /\ i < Len(name) THEN SubSeq(name, i, Len(name)) ELSE << >>

\* Path(s).stem: the name without the suffix.
PathStem(s) ==
    LET name == PathName(s)
        i == RFind(name, ".") IN
    IF 1 < i /\ i < Len(name) THEN SubSeq(name, 1, i - 1) ELSE name

\* str(Path(s).parent): the path without its last component; a path without
\* components is its own parent.
PathParent(s) ==
    LET parts == PathParts(s) IN
    IF parts = << >> THEN PathStr(PathRoot(s), << >>)
    ELSE PathStr(PathRoot(s), SubSeq(parts, 1, Len(parts) - 1))

\* f"{index:04d}": the decimal digits, padded with zeros to four.
RECURSIVE Digits(_)
Digits(n) ==
    LET d == << "0", "1", "2", "3", "4", "5", "6", "7", "8", "9" >>[(n % 10) + 1] IN
    IF n < 10 THEN << d >> ELSE Digits(n \div 10) \o << d >>

Format04d(index) ==
    [i \in 1..(FORMAT_WIDTH - Len(Digits(index))) |-> "0"] \o Digits(index)

\* FileManager.process_output_path, lines 27-50.
process_output_path(original_file_path, index, default_output_dir) ==
    IF original_file_path = << >>
      THEN os_path_join(default_output_dir,
                        << "audio_" >> \o Format04d(index) \o DEFAULT_SUFFIX)
    ELSE
      LET processed_path == IF original_file_path[1] = "/"
                              THEN Tail(original_file_path) ELSE original_file_path
          base_name == PathStem(processed_path)
          original_suffix == IF PathSuffix(processed_path) = << >>
                               THEN DEFAULT_SUFFIX ELSE PathSuffix(processed_path)
          dir_part == PathParent(processed_path)
          output_filename == base_name \o original_suffix
      IN  os_path_join(os_path_join(<< "." >>, dir_part), output_filename)

\* Mutant: a text of exactly max_length characters is cut as well.
get_text_preview_strict(text, max_length) ==
    IF Len(text) < max_length THEN text
    ELSE SubSeq(text, 1, max_length) \o << ".", ".", "." >>

\* TTSGenerator._get_text_preview, lines 60-64.
get_text_preview(text, max_length) ==
    IF Len(text) <= max_length THEN text
    ELSE SubSeq(text, 1, max_length) \o << ".", ".", "." >>

\* Mutant: the ledger cuts so that the preview with its dots has 50 characters.
add_record_preview_short(answer_text) ==
    IF Len(answer_text) > PREVIEW_LENGTH - 3
      THEN SubSeq(answer_text, 1, PREVIEW_LENGTH - 3) \o << ".", ".", "." >>
      ELSE answer_text

\* CSVProcessor.add_record, line 119: the text_preview of the record.
add_record_preview(answer_text) ==
    IF Len(answer_text) > PREVIEW_LENGTH
      THEN SubSeq(answer_text, 1, PREVIEW_LENGTH) \o << ".", ".", "." >>
      ELSE answer_text

(* ------------------------------ data ---------------------------------- *)
\* The texts of the tasks: a text to speak, and the empty string.
Texts == { "Hello", "" }

\* TTSTask(text, output_path, index)
TTSTask(text, output_path, index) ==
    [text |-> text, output_path |-> output_path, index |-> index]

\* Destinations of the tasks of a caller other than BatchTab: "1.mp3" for
\* index 1, without a directory part, and "out/<index>.mp3" for the others,
\* which share the parent directory "out".
OutputPathOf(index) ==
    IF index = 1 THEN Digits(index) \o DEFAULT_SUFFIX
    ELSE << "out", "/" >> \o Digits(index) \o DEFAULT_SUFFIX

\* The task lists a caller other than BatchTab hands to batch_generate: the
\* tasks are numbered from 1 in input order; a list may be empty, and its
\* last task may have an empty text.
Batches ==
    { [i \in 1..n |-> TTSTask(IF blank /\ i = n THEN "" ELSE "Hello", OutputPathOf(i), i)] :
        n \in 0..MaxTasks, blank \in BOOLEAN }

\* One record of CSVProcessor.read: the two columns, stripped (lines 180-181).
CsvRecord(answer_text, file_path) == [answer_text |-> answer_text, file_path |-> file_path]

\* The file_path column of a record that names a destination: "a.m4a".
FILE_PATH == << "a", ".", "m4a" >>

\* The records BatchTab reads from the CSV file: rows with and without text
\* that name no file_path, or rows with text that all name the same one.
Rows ==
    UNION { [1..n -> { CsvRecord(text, << >>) : text \in Texts }]
                \cup [1..n -> { CsvRecord("Hello", FILE_PATH) }] : n \in 1..MaxRows }

\* BatchTab._on_generate, line 179: the row numbers, from 1.
RowNumbers(records) == [i \in 1..Len(records) |-> i]

\* BatchTab._on_generate, lines 187-189: the destination of the task of row i.
OutputPathOfRow(records, i) ==
    process_output_path(records[i].file_path, i, DEFAULT_OUTPUT_DIR)

\* Mutant: a task is built for every row, with or without text.
TasksOfAllRows(records) ==
    [i \in 1..Len(records) |->
        TTSTask(records[i].answer_text, OutputPathOfRow(records, i), i)]

\* BatchTab._on_generate, lines 176-196: self.tasks, one task per row that
\* has a text, with the row number as index.
TasksOf(records) ==
    LET kept == SelectSeq(RowNumbers(records), LAMBDA i : records[i].answer_text # "") IN
    [k \in 1..Len(kept) |->
        TTSTask(records[kept[k]].answer_text, OutputPathOfRow(records, kept[k]), kept[k])]

\* ConversionRecord(index, text_preview, file_path, status, message)
ConversionRecord(index, status, message) ==
    [index |-> index, status |-> status, message |-> message]

\* BatchTab._on_generate, lines 183-185: the records added for the rows
\* without text.
SkippedRecords(records) ==
    LET skipped == SelectSeq(RowNumbers(records), LAMBDA i : records[i].answer_text = "") IN
    [k \in 1..Len(skipped) |-> ConversionRecord(skipped[k], "failed", EMPTY_TEXT)]

\* TTSResult(index, output_path, success, text_preview, error)
TTSResult(index, output_path, success, error) ==
    [index |-> index, output_path |-> output_path, success |-> success, error |-> error]

NoResult == TTSResult(0, OutputPathOf(0), FALSE, NO_ERROR)

\* What asyncio.gather(..., return_exceptions=True) holds for one coroutine.
Pending == [kind |-> "pending", value |-> NoResult, exc |-> NO_ERROR]
Returned(result) == [kind |-> "value", value |-> result, exc |-> NO_ERROR]
Raised(msg) == [kind |-> "exception", value |-> NoResult, exc |-> msg]

VARIABLES
    voice,              \* self.voice
    rate,               \* self.rate
    volume,             \* self.volume
    pitch,              \* self.pitch
    cancelled,          \* self._cancelled
    phase,              \* "idle", "prepared" (BatchTab starts its thread),
                        \* "running" (inside batch_generate), "returned",
                        \* "single" (a call of generate_audio_async by another caller)
    runs,               \* number of calls of the engine instance so far
    tasks,              \* argument tasks; the one (text, output_path) of a single call
    max_retries,        \* argument max_retries of generate_audio_async
    max_concurrent,     \* argument max_concurrent
    has_callback,       \* progress_callback is not None
    semaphore,          \* asyncio.Semaphore._value
    completed,          \* nonlocal completed
    pc,                 \* position of each process_task coroutine
    attempt,            \* loop variable of generate_audio_async
    last_error,         \* local last_error
    voices_tried,       \* local voices_tried
    results,            \* what gather collects per coroutine
    processed_results,  \* list returned by batch_generate
    progress,           \* history: the calls made to progress_callback
    calls,              \* history: the client calls of each task, voice and state
    rows,               \* BatchTab: the records read by _on_generate
    self_tasks,         \* BatchTab.tasks
    csv_records,        \* BatchTab.csv_processor: the records added so far
    run_rows,           \* history: the records the batch of BatchTab was built from
                        \* (<< >> after a click that found no task and no batch running)
    is_generating,      \* BatchTab.is_generating
    threads,            \* the threads of BatchTab._generate_task started and not ended
    dirs,               \* the file system: the directories that exist
    cancel_view,        \* history: where each task was when the standing flag was set
    reset_view,         \* history: reset() after an ended run, and the run after it
    pure_call           \* one call of _get_text_preview or process_output_path:
                        \* its arguments and, once it has returned, its value

vars == << voice, rate, volume, pitch, cancelled, phase, runs, tasks, max_retries, max_concurrent,
           has_callback, semaphore, completed, pc, attempt, last_error, voices_tried,
           results, processed_results, progress, calls, rows, self_tasks, csv_records,
           run_rows, is_generating, threads, dirs, cancel_view, reset_view, pure_call >>

engine == << voice, rate, volume, pitch >>
tab == << is_generating, threads >>
gui == << rows, self_tasks, csv_records, run_rows >>
args == << tasks, max_retries, max_concurrent, has_callback >>
locals == << attempt, last_error, voices_tried >>

Pos == 1..Len(tasks)

\* The directory that exists from the start: the working directory, "./.".
CWD == os_path_dirname(process_output_path(<< "a" >>, 1, DEFAULT_OUTPUT_DIR))

Constructed ==
    /\ \E config \in CallerConfigs :
          /\ voice = config.voice
          /\ rate = config.rate
          /\ volume = config.volume
          /\ pitch = config.pitch
    /\ cancelled = FALSE
    /\ phase = "idle"
    /\ runs = 0
    /\ tasks = << >>
    /\ max_retries = MAX_RETRIES
    /\ max_concurrent = 0
    /\ has_callback = FALSE
    /\ semaphore = 0
    /\ completed = 0
    /\ pc = << >>
    /\ attempt = << >>
    /\ last_error = << >>
    /\ voices_tried = << >>
    /\ results = << >>
    /\ processed_results = << >>
    /\ progress = << >>
    /\ calls = << >>
    /\ rows = << >>
    /\ self_tasks = << >>
    /\ csv_records = << >>
    /\ run_rows = << >>
    /\ is_generating = FALSE
    /\ threads = 0
    /\ dirs = { CWD }
    /\ cancel_view = << >>
    /\ reset_view = "none"

\* No call of a function of its own is followed.
NO_CALL == [fn |-> "none", text |-> << >>, index |-> 0, returned |-> FALSE, value |-> << >>]

Init == Constructed /\ pure_call = NO_CALL

(* --------------------------- cancel / reset --------------------------- *)
\* Mutant: the checks never see the flag.
IsCancelledNever == FALSE

\* The value a check of self._cancelled reads.
IsCancelled == cancelled

\* What the history keeps of a task's position at the moment the flag is
\* set: waiting for a slot, between the check of line 91 and the client
\* call, with a client call in flight, or anywhere else.
ViewOf(p) == IF p \in {"waiting", "call", "inflight"} THEN p ELSE "other"

\* reset_view is "reset" when reset() was called after a batch run returned
\* and nothing happened since ("cleared" if that reset() cleared a set flag),
\* "rerun" ("rerun_cleared") in the batch run started then, as long as
\* cancel() is not called, and "none" otherwise.
\*
\* cancel_view[t] is "none" while the flag is clear, "before_run" when the
\* standing flag was set before the run started, and else where task t was
\* when the standing flag was set; "called" once a task that was between
\* check and call has made that call.
ViewAtCancel == [t \in Pos |-> ViewOf(pc[t])]
ViewAtReset == [t \in Pos |-> "none"]

\* Mutant: cancel() also aborts the tasks whose client call is in flight,
\* which end at once with the cancelled result.
CancelAbortsInFlight ==
    /\ cancelled' = TRUE
    /\ cancel_view' = IF cancelled THEN cancel_view ELSE ViewAtCancel
    /\ reset_view' = "none"
    /\ pc' = [t \in Pos |-> IF pc[t] = "inflight" THEN "done" ELSE pc[t]]
    /\ results' = [t \in Pos |->
          IF pc[t] = "inflight"
            THEN Returned(TTSResult(tasks[t].index, tasks[t].output_path, FALSE, TASK_CANCELLED))
            ELSE results[t]]
    /\ semaphore' = semaphore + Cardinality({ t \in Pos : pc[t] = "inflight" })
    /\ UNCHANGED << pure_call, threads, dirs, gui, engine, phase, runs, args, completed, locals,
                    processed_results, progress, calls >>

\* Mutant: cancel() flips the flag.
CancelToggles ==
    /\ cancelled' = ~cancelled
    /\ cancel_view' = IF cancelled THEN cancel_view ELSE ViewAtCancel
    /\ reset_view' = "none"
    /\ UNCHANGED << pure_call, threads, dirs, gui, engine, phase, runs, args, semaphore, completed, pc, locals,
                    results, processed_results, progress, calls >>

\* cancel(): self._cancelled = True; it starts and ends no thread (the flag
\* is_generating is the caller's to change or keep).
Cancel ==
    /\ cancelled' = TRUE
    /\ cancel_view' = IF cancelled THEN cancel_view ELSE ViewAtCancel
    /\ reset_view' = "none"
    /\ UNCHANGED << pure_call, threads, dirs, gui, engine, phase, runs, args, semaphore, completed, pc, locals,
                    results, processed_results, progress, calls >>

\* reset_view after reset(): it is recorded when a batch run has returned.
ViewAfterReset ==
    IF phase # "returned" THEN reset_view
    ELSE IF cancelled \/ reset_view = "cleared" THEN "cleared"
    ELSE "reset"

\* Mutant: reset() leaves the flag as it is.
ResetKeepsFlag ==
    /\ cancelled' = cancelled
    /\ cancel_view' = cancel_view
    /\ reset_view' = ViewAfterReset
    /\ UNCHANGED << pure_call, tab, dirs, gui, engine, phase, runs, args, semaphore, completed, pc, locals,
                    results, processed_results, progress, calls >>

\* reset(): self._cancelled = False
Reset ==
    /\ cancelled' = FALSE
    /\ cancel_view' = ViewAtReset
    /\ reset_view' = ViewAfterReset
    /\ UNCHANGED << pure_call, tab, dirs, gui, engine, phase, runs, args, semaphore, completed, pc, locals,
                    results, processed_results, progress, calls >>

(* --------------------------- batch_generate --------------------------- *)
\* Mutant: batch_generate clears the flag when it starts.
FlagClearedAtStart == FALSE

\* The flag as batch_generate leaves it when it starts a run.
FlagAfterStart == cancelled

\* No call of the engine is under way: none was made yet, batch_generate
\* has returned, or the single call of generate_audio_async has ended.
NoCallUnderWay ==
    \/ phase \in {"idle", "returned"}
    \/ phase = "single" /\ pc[1] = "done"

\* batch_generate, lines 168-203: semaphore, counters, one coroutine per task;
\* process_task calls generate_audio_async with the default max_retries.
RunBatch(batch, limit, callback) ==
    /\ runs' = runs + 1
    /\ phase' = "running"
    /\ tasks' = batch
    /\ max_retries' = MAX_RETRIES
    /\ max_concurrent' = limit
    /\ has_callback' = callback
    /\ semaphore' = limit
    /\ completed' = 0
    /\ pc' = [t \in 1..Len(batch) |-> "waiting"]
    /\ attempt' = [t \in 1..Len(batch) |-> 0]
    /\ last_error' = [t \in 1..Len(batch) |-> NO_ERROR]
    /\ voices_tried' = [t \in 1..Len(batch) |-> << >>]
    /\ results' = [t \in 1..Len(batch) |-> Pending]
    /\ processed_results' = << >>
    /\ progress' = << >>
    /\ calls' = [t \in 1..Len(batch) |-> << >>]
    /\ cancelled' = FlagAfterStart
    /\ cancel_view' = [t \in 1..Len(batch) |->
                          IF cancelled THEN "before_run" ELSE "none"]
    /\ reset_view' = CASE reset_view = "reset" -> "rerun"
                        [] reset_view = "cleared" -> "rerun_cleared"
                        [] OTHER -> "none"
    /\ UNCHANGED << pure_call, tab, dirs, engine >>

\* The engine belongs to a BatchTab, which is then its only user (the
\* attribute BatchTab.tts_generator is handed to nobody else).
OwnedByBatchTab == rows # << >>

\* A call of batch_generate by a caller other than BatchTab.
StartBatch(batch, limit, callback) ==
    /\ ~OwnedByBatchTab
    /\ NoCallUnderWay
    /\ runs < MaxRuns
    /\ RunBatch(batch, limit, callback)
    /\ UNCHANGED gui

\* BatchTab._on_cancel, lines 299-305: cancel() of the engine, then
\* is_generating = False and _reset_ui_state, which enables the button of
\* _on_generate and disables the button of _on_cancel, while the thread of
\* _generate_task still runs.  The button of _on_cancel is enabled from
\* _on_generate on, lines 207-208, until then or until the thread has ended.
OnCancel ==
    /\ OwnedByBatchTab /\ is_generating /\ threads = 1
    /\ Cancel
    /\ is_generating' = FALSE

\* The button of _on_generate is enabled by _on_cancel while the thread of
\* _generate_task still runs.  A click on it then is taken at the point where
\* the coroutines of the cancelled run have ended and batch_generate has not
\* yet returned.
ClickableAfterCancel ==
    /\ OwnedByBatchTab /\ phase = "running" /\ ~is_generating /\ threads = 1
    /\ \A t \in Pos : pc[t] = "done"

\* BatchTab._on_generate, lines 155-228: make a new CSVProcessor, read the
\* records, add a failed record for every row without text and build a task
\* for every other row, making the directory of its destination
\* (FileManager.ensure_dir, taken to succeed: if it raises, _on_generate
\* ends there and starts nothing); without tasks return, else set
\* is_generating, construct a new TTSGenerator and start the thread of
\* _generate_task.  The button is disabled from then on until the run has
\* ended or was cancelled.  A click during a cancelled run that builds tasks
\* starts a second thread with a second engine next to the running one: the
\* thread is counted, the variables of the engine go on describing the
\* engine of the first thread up to its end, and the run of the second
\* thread is not followed.
OnGenerate(records, config) ==
    /\ OwnedByBatchTab \/ runs = 0
    /\ (NoCallUnderWay /\ threads = 0) \/ ClickableAfterCancel
    /\ UNCHANGED pure_call
    /\ rows' = records
    /\ csv_records' = SkippedRecords(records)
    /\ self_tasks' = TasksOf(records)
    /\ dirs' = dirs \cup { os_path_dirname(self_tasks'[k].output_path) :
                              k \in 1..Len(self_tasks') }
    /\ IF self_tasks' = << >>
         THEN /\ run_rows' = IF phase = "running" THEN run_rows ELSE << >>
              /\ UNCHANGED << tab, engine, cancelled, phase, runs, args, semaphore,
                              completed, pc, locals, results, processed_results,
                              progress, calls, cancel_view, reset_view >>
         ELSE /\ is_generating' = TRUE
              /\ threads' = threads + 1
              /\ IF threads = 1
                   THEN UNCHANGED << run_rows, engine, cancelled, phase, runs, args,
                                     semaphore, completed, pc, locals, results,
                                     processed_results, progress, calls, cancel_view,
                                     reset_view >>
                   ELSE /\ run_rows' = records
                        /\ voice' = config.voice
                        /\ rate' = config.rate
                        /\ volume' = config.volume
                        /\ pitch' = config.pitch
                        /\ cancelled' = FALSE
                        /\ phase' = "prepared"
                        /\ tasks' = << >>
                        /\ max_retries' = MAX_RETRIES
                        /\ max_concurrent' = 0
                        /\ has_callback' = FALSE
                        /\ semaphore' = 0
                        /\ completed' = 0
                        /\ pc' = << >>
                        /\ attempt' = << >>
                        /\ last_error' = << >>
                        /\ voices_tried' = << >>
                        /\ results' = << >>
                        /\ processed_results' = << >>
                        /\ progress' = << >>
                        /\ calls' = << >>
                        /\ cancel_view' = << >>
                        /\ reset_view' = "none"
                        /\ runs' = 0

\* BatchTab._generate_task, lines 230-241: the thread calls
\* batch_generate_sync(self.tasks, config concurrent, progress_callback).
GenerateTask(limit) ==
    /\ phase = "prepared"
    /\ RunBatch(self_tasks, limit, TRUE)
    /\ UNCHANGED gui

\* Mutant: the slot is not given back.
ReleaseNothing == semaphore' = semaphore

\* Leaving the `async with semaphore` block: Semaphore.release().
Release == semaphore' = semaphore + 1

\* The frame of generate_audio_async is gone when process_task ends.
DropLocals(t) ==
    /\ attempt' = [attempt EXCEPT ![t] = 0]
    /\ last_error' = [last_error EXCEPT ![t] = NO_ERROR]
    /\ voices_tried' = [voices_tried EXCEPT ![t] = << >>]

\* Mutant: the callback is handed a succeeded result whatever the call gave.
FinishReportsSuccess(t, success, error) ==
    LET result == TTSResult(tasks[t].index, tasks[t].output_path, success, error)
        reported == TTSResult(tasks[t].index, tasks[t].output_path, TRUE, NO_ERROR) IN
    /\ completed' = completed + 1
    /\ IF has_callback
         THEN /\ progress' = Append(progress,
                    [completed |-> completed + 1, total |-> Len(tasks), result |-> reported])
              /\ \E raises \in BOOLEAN :
                    results' = [results EXCEPT
                        ![t] = IF raises THEN Raised(CALLBACK_FAULT) ELSE Returned(result)]
         ELSE /\ progress' = progress
              /\ results' = [results EXCEPT ![t] = Returned(result)]
    /\ Release
    /\ pc' = [pc EXCEPT ![t] = "done"]
    /\ DropLocals(t)

\* process_task, lines 176-197: build the TTSResult, count it, report it,
\* leave the `async with` block and return it; the callback may raise, and
\* the exception then leaves process_task instead of the result.
Finish(t, success, error) ==
    LET result == TTSResult(tasks[t].index, tasks[t].output_path, success, error) IN
    /\ completed' = completed + 1
    /\ IF has_callback
         THEN /\ progress' = Append(progress,
                    [completed |-> completed + 1, total |-> Len(tasks), result |-> result])
              /\ \E raises \in BOOLEAN :
                    results' = [results EXCEPT
                        ![t] = IF raises THEN Raised(CALLBACK_FAULT) ELSE Returned(result)]
         ELSE /\ progress' = progress
              /\ results' = [results EXCEPT ![t] = Returned(result)]
    /\ Release
    /\ pc' = [pc EXCEPT ![t] = "done"]
    /\ DropLocals(t)

\* Mutant: an exception leaves process_task without releasing the slot.
RaiseKeepsSlot(t, msg) ==
    /\ results' = [results EXCEPT ![t] = Raised(msg)]
    /\ semaphore' = semaphore
    /\ pc' = [pc EXCEPT ![t] = "done"]
    /\ DropLocals(t)
    /\ UNCHANGED << completed, progress >>

\* An exception raised inside generate_audio_async leaves process_task
\* through `async with`: the slot is released, nothing is counted or reported.
\* In a single call it reaches the caller of generate_audio_async.
Raise(t, msg) ==
    /\ results' = [results EXCEPT ![t] = Raised(msg)]
    /\ IF phase = "running" THEN Release ELSE semaphore' = semaphore
    /\ pc' = [pc EXCEPT ![t] = "done"]
    /\ DropLocals(t)
    /\ UNCHANGED << completed, progress >>

\* Mutant: acquire never waits (the cap is not enforced).
SemaphoreAlwaysFree == TRUE

\* Mutant: a semaphore made with 0 never makes acquire wait.
SemaphoreFreeOrUnbounded == semaphore > 0 \/ max_concurrent = 0

\* asyncio.Semaphore.acquire returns without waiting.
SemaphoreFree == semaphore > 0

\* Mutant: any waiting coroutine may take a free slot.
AnyWaiter(t) == TRUE

\* Waiters of an asyncio.Semaphore are woken first-in first-out, and the
\* coroutines start in input order.
FirstWaiter(t) == \A u \in Pos : u < t => pc[u] # "waiting"

\* process_task, line 174: enter `async with semaphore`.
Admit(t) ==
    /\ phase = "running"
    /\ pc[t] = "waiting"
    /\ SemaphoreFree
    /\ FirstWaiter(t)
    /\ semaphore' = semaphore - 1
    /\ pc' = [pc EXCEPT ![t] = "admitted"]
    /\ UNCHANGED << pure_call, tab, dirs, gui, engine, reset_view, cancelled, phase, runs, args, completed, locals, results,
                    processed_results, progress, calls, cancel_view >>

(* ------------------------ generate_audio_async ------------------------ *)
\* A call of generate_audio_async(text, output_path, max_retries) by a
\* caller other than process_task: generate_audio (lines 145-152, which
\* passes the default max_retries) or a direct caller.
StartAudio(text, output_path, retries) ==
    /\ ~OwnedByBatchTab
    /\ NoCallUnderWay
    /\ runs < MaxRuns
    /\ runs' = runs + 1
    /\ phase' = "single"
    /\ tasks' = << TTSTask(text, output_path, 0) >>
    /\ max_retries' = retries
    /\ max_concurrent' = 0
    /\ has_callback' = FALSE
    /\ semaphore' = 0
    /\ completed' = 0
    /\ pc' = << "start" >>
    /\ attempt' = << 0 >>
    /\ last_error' = << NO_ERROR >>
    /\ voices_tried' = << << >> >>
    /\ results' = << Pending >>
    /\ processed_results' = << >>
    /\ progress' = << >>
    /\ calls' = << << >> >>
    /\ cancelled' = cancelled
    /\ cancel_view' = << IF cancelled THEN "before_call" ELSE "none" >>
    /\ reset_view' = "none"
    /\ UNCHANGED << pure_call, tab, dirs, gui, engine >>

\* generate_audio, lines 145-152: the TTSResult with index 0 built from the
\* (success, error) that generate_audio_async returned.
ReturnAudio(t, success, error) ==
    /\ results' = [results EXCEPT
          ![t] = Returned(TTSResult(0, tasks[t].output_path, success, error))]
    /\ pc' = [pc EXCEPT ![t] = "done"]
    /\ DropLocals(t)
    /\ UNCHANGED << semaphore, completed, progress >>

\* generate_audio_async returns (success, error) to its caller: process_task
\* (line 184) in a batch run, else the caller of the single call.
Return(t, success, error) ==
    IF phase = "running" THEN Finish(t, success, error) ELSE ReturnAudio(t, success, error)

\* A client call can be made or awaited: inside batch_generate or a single call.
InCall == phase \in {"running", "single"}

\* Lines 83-84: output_dir, and os.makedirs is called only if it is not empty.
OutputDir(t) == os_path_dirname(tasks[t].output_path)
MakedirsCalled(t) == OutputDir(t) # << >>

\* Mutant: os.makedirs is called without exist_ok.
exist_ok_false == FALSE

\* Line 85: os.makedirs(output_dir, exist_ok=True).
exist_ok == TRUE

\* The exceptions os.makedirs(d, exist_ok) can raise: FileExistsError for an
\* existing directory unless exist_ok, an OSError of the environment
\* (permissions, a file in the way) for a directory it has to create.
MakedirsFaults(d) ==
    IF d \in dirs THEN (IF exist_ok THEN {} ELSE { FILE_EXISTS_FAULT })
    ELSE { MAKEDIRS_FAULT }

\* os.makedirs(d, exist_ok) can return: the directory exists afterwards.
MakedirsReturns(d) == d \notin dirs \/ exist_ok

\* The directories after lines 83-85 have run for task t without an exception.
DirsAfterMakedirs(t) == IF MakedirsCalled(t) THEN dirs \cup { OutputDir(t) } ELSE dirs

InSeq(x, s) == \E i \in 1..Len(s) : s[i] = x

\* Mutant: the fallback index is the attempt index, not attempt - 1.
VoiceOfAttemptOffByOne(a) ==
    IF a = 0 THEN voice ELSE FALLBACK_VOICES[(a % Len(FALLBACK_VOICES)) + 1]

\* Lines 95-100: the voice of an attempt.
VoiceOfAttempt(a) ==
    IF a = 0 THEN voice ELSE FALLBACK_VOICES[((a - 1) % Len(FALLBACK_VOICES)) + 1]

\* Mutant: only the primary voice is skipped, not a voice already tried.
SkipAttemptPrimaryOnly(tried, a) ==
    a # 0 /\ VoiceOfAttempt(a) = voice

\* Mutant: no attempt index is skipped.
SkipAttemptNever(tried, a) == FALSE

\* Lines 101-105: the two `continue` conditions.
SkipAttempt(tried, a) ==
    \/ a # 0 /\ VoiceOfAttempt(a) = voice
    \/ InSeq(VoiceOfAttempt(a), tried)

\* Lines 90-105: the first attempt index from a on that is not skipped by
\* `continue`, or max_retries when the range is used up.
RECURSIVE NextAttempt(_, _)
NextAttempt(tried, a) ==
    IF a >= max_retries THEN max_retries
    ELSE IF SkipAttempt(tried, a) THEN NextAttempt(tried, a + 1)
    ELSE a

\* Mutant: the loop does not check the flag.
LoopIgnoresCancel == FALSE

\* The flag as read at the head of a loop iteration (line 91).
LoopSeesCancelled == IsCancelled

\* generate_audio_async, lines 90-106 and 132, from attempt index a with the
\* given locals: the loop runs without suspending up to the next client call
\* (pc "call"), or returns the cancelled or the all-voices-failed result.
RunLoop(t, a, tried, last) ==
    LET n == NextAttempt(tried, a) IN
    IF a >= max_retries
      THEN Return(t, FALSE, AllVoicesFailed(last))
    ELSE IF LoopSeesCancelled
      THEN Return(t, FALSE, TASK_CANCELLED)
    ELSE IF n >= max_retries
      THEN Return(t, FALSE, AllVoicesFailed(last))
    ELSE /\ attempt' = [attempt EXCEPT ![t] = n]
         /\ voices_tried' = [voices_tried EXCEPT ![t] = Append(tried, VoiceOfAttempt(n))]
         /\ last_error' = [last_error EXCEPT ![t] = last]
         /\ pc' = [pc EXCEPT ![t] = "call"]
         /\ UNCHANGED << semaphore, completed, progress, results >>

\* process_task, lines 175-184, and generate_audio_async, lines 79-106: the
\* cancelled result, or the call of generate_audio_async: its flag check, the
\* directory, and the loop up to the first client call.
Enter(t) ==
    /\ phase = "running"
    /\ pc[t] = "admitted"
    /\ \/ /\ IsCancelled
          /\ Finish(t, FALSE, TASK_CANCELLED)
          /\ dirs' = dirs
       \/ /\ ~IsCancelled
          /\ MakedirsCalled(t)
          /\ \E msg \in MakedirsFaults(OutputDir(t)) : Raise(t, msg)
          /\ dirs' = dirs
       \/ /\ ~IsCancelled
          /\ MakedirsCalled(t) => MakedirsReturns(OutputDir(t))
          /\ RunLoop(t, 0, << >>, NO_ERROR)
          /\ dirs' = DirsAfterMakedirs(t)
    /\ UNCHANGED << pure_call, tab, gui, engine, reset_view, cancelled, phase, runs, args,
                    processed_results, calls, cancel_view >>

\* generate_audio_async, lines 79-106, in a single call: the flag check, the
\* directory, and the loop up to the first client call.
EnterAudio ==
    /\ phase = "single"
    /\ pc[1] = "start"
    /\ \/ /\ IsCancelled
          /\ ReturnAudio(1, FALSE, TASK_CANCELLED)
          /\ dirs' = dirs
       \/ /\ ~IsCancelled
          /\ MakedirsCalled(1)
          /\ \E msg \in MakedirsFaults(OutputDir(1)) : Raise(1, msg)
          /\ dirs' = dirs
       \/ /\ ~IsCancelled
          /\ MakedirsCalled(1) => MakedirsReturns(OutputDir(1))
          /\ RunLoop(1, 0, << >>, NO_ERROR)
          /\ dirs' = DirsAfterMakedirs(1)
    /\ UNCHANGED << pure_call, tab, gui, engine, reset_view, cancelled, phase, runs, args,
                    processed_results, calls, cancel_view >>

\* current_voice of the iteration that reached line 106.
CurrentVoice(t) == voices_tried[t][Len(voices_tried[t])]

\* Lines 117-119: kwargs['pitch'] is set only for a pitch other than
\* 'default' (and not empty); "" stands for no pitch argument.
PitchArg == IF pitch # "" /\ pitch # DEFAULT_PITCH THEN pitch ELSE ""

\* Mutant: the calls with a fallback voice use the default rate and volume.
ClientCallPlainFallback(v, state, error) ==
    [voice |-> v,
     rate |-> IF v = voice THEN rate ELSE DEFAULT_RATE,
     volume |-> IF v = voice THEN volume ELSE DEFAULT_VOLUME,
     pitch |-> PitchArg, state |-> state, error |-> error]

\* One invocation of the synthesis client, lines 110-123: its keyword
\* arguments (the text left out), and its state: "pending", then "ok" or
\* "failed" with the message of the exception.
ClientCall(v, state, error) ==
    [voice |-> v, rate |-> rate, volume |-> volume, pitch |-> PitchArg,
     state |-> state, error |-> error]

\* The pending call of task t ends, with the message of its exception if it raised.
EndCall(t, state, error) ==
    calls' = [calls EXCEPT ![t][Len(calls[t])] = [@ EXCEPT !.state = state, !.error = error]]

\* Lines 108-123: edge_tts.Communicate(**kwargs); await communicate.save(...).
StartCall(t) ==
    /\ InCall
    /\ pc[t] = "call"
    /\ calls' = [calls EXCEPT ![t] = Append(@, ClientCall(CurrentVoice(t), "pending", NO_ERROR))]
    /\ pc' = [pc EXCEPT ![t] = "inflight"]
    /\ cancel_view' = [cancel_view EXCEPT ![t] = IF @ = "call" THEN "called" ELSE @]
    /\ UNCHANGED << pure_call, tab, dirs, gui, engine, reset_view, cancelled, phase, runs, args, semaphore, completed, locals,
                    results, processed_results, progress >>

\* Mutant: a successful call does not return; the loop goes on.
CallOkContinues(t) ==
    /\ InCall
    /\ pc[t] = "inflight"
    /\ EndCall(t, "ok", NO_ERROR)
    /\ pc' = [pc EXCEPT ![t] = "sleep"]
    /\ UNCHANGED << pure_call, tab, dirs, gui, engine, reset_view, cancelled, phase, runs, args, semaphore, completed, locals,
                    results, processed_results, progress, cancel_view >>

\* Mutant: a success after a failure returns the stored last_error as error.
CallOkKeepsError(t) ==
    /\ InCall
    /\ pc[t] = "inflight"
    /\ EndCall(t, "ok", NO_ERROR)
    /\ Return(t, TRUE, last_error[t])
    /\ UNCHANGED << pure_call, tab, dirs, gui, engine, reset_view, cancelled, phase, runs, args,
                    processed_results, cancel_view >>

\* Mutant: the result is built and reported while the client call is pending.
CallOkReportsPending(t) ==
    /\ InCall
    /\ pc[t] = "inflight"
    /\ calls' = calls
    /\ Return(t, TRUE, NO_ERROR)
    /\ UNCHANGED << pure_call, tab, dirs, gui, engine, reset_view, cancelled, phase, runs, args,
                    processed_results, cancel_view >>

\* Line 125: the client call returned, generate_audio_async returns (True, "").
CallOk(t) ==
    /\ InCall
    /\ pc[t] = "inflight"
    /\ EndCall(t, "ok", NO_ERROR)
    /\ Return(t, TRUE, NO_ERROR)
    /\ UNCHANGED << pure_call, tab, dirs, gui, engine, reset_view, cancelled, phase, runs, args,
                    processed_results, cancel_view >>

\* Mutant: the message of the first failure is kept, later ones are dropped.
CallFailKeepsFirst(t, msg) ==
    /\ InCall
    /\ pc[t] = "inflight"
    /\ EndCall(t, "failed", msg)
    /\ last_error' = [last_error EXCEPT ![t] = IF @ = NO_ERROR THEN msg ELSE @]
    /\ pc' = [pc EXCEPT ![t] = "sleep"]
    /\ UNCHANGED << pure_call, tab, dirs, gui, engine, reset_view, cancelled, phase, runs, args, semaphore, completed, attempt,
                    voices_tried, results, processed_results, progress, cancel_view >>

\* Lines 127-130: the client call raised; remember the message and sleep.
CallFail(t, msg) ==
    /\ InCall
    /\ pc[t] = "inflight"
    /\ EndCall(t, "failed", msg)
    /\ last_error' = [last_error EXCEPT ![t] = msg]
    /\ pc' = [pc EXCEPT ![t] = "sleep"]
    /\ UNCHANGED << pure_call, tab, dirs, gui, engine, reset_view, cancelled, phase, runs, args, semaphore, completed, attempt,
                    voices_tried, results, processed_results, progress, cancel_view >>

\* Mutant: a loop that sees the flag after a failed call reports that call.
WakeReportsLastError(t) ==
    /\ InCall
    /\ pc[t] = "sleep"
    /\ IF IsCancelled
         THEN Return(t, FALSE, AllVoicesFailed(last_error[t]))
         ELSE RunLoop(t, attempt[t] + 1, voices_tried[t], last_error[t])
    /\ UNCHANGED << pure_call, tab, dirs, gui, engine, reset_view, cancelled, phase, runs, args,
                    processed_results, calls, cancel_view >>

\* asyncio.sleep(0.5) is over: the loop goes on with the next attempt index.
Wake(t) ==
    /\ InCall
    /\ pc[t] = "sleep"
    /\ RunLoop(t, attempt[t] + 1, voices_tried[t], last_error[t])
    /\ UNCHANGED << pure_call, tab, dirs, gui, engine, reset_view, cancelled, phase, runs, args,
                    processed_results, calls, cancel_view >>

(* ------------------------ gather and the result ----------------------- *)
\* Mutant: the converted Outcome is numbered by the loop counter.
ProcessedResultByPosition(i) ==
    IF results[i].kind = "exception"
      THEN TTSResult(i, tasks[i].output_path, FALSE, results[i].exc)
      ELSE results[i].value

\* Lines 208-217: one entry of processed_results.
ProcessedResult(i) ==
    IF results[i].kind = "exception"
      THEN TTSResult(tasks[i].index, tasks[i].output_path, FALSE, results[i].exc)
      ELSE results[i].value

\* Mutant: the list is filled in the order the tasks were reported finished.
ProcessResultsAsCompleted ==
    IF has_callback /\ Len(progress) = Len(results)
      THEN [i \in 1..Len(results) |-> progress[i].result]
      ELSE [i \in 1..Len(results) |-> ProcessedResult(i)]

\* Mutant: the coroutines that raised are left out of the list.
ProcessResultsDropRaised ==
    LET kept == SelectSeq(results, LAMBDA r : r.kind = "value") IN
    [i \in 1..Len(kept) |-> kept[i].value]

\* Mutant: an empty batch gets a placeholder Outcome.
ProcessResultsNeverEmpty ==
    IF results = << >> THEN << NoResult >>
    ELSE [i \in 1..Len(results) |-> ProcessedResult(i)]

\* Lines 206-217: the loop over the gathered results.
ProcessResults == [i \in 1..Len(results) |-> ProcessedResult(i)]

\* BatchTab._generate_task, line 245: status = '成功' if result.success else '失败'
StatusOf(result) == IF result.success THEN "success" ELSE "failed"

\* BatchTab._generate_task, lines 244-252: the records added for the list
\* batch_generate_sync returned, one per Outcome, in the order of the list.
ResultRecords(outcomes) ==
    [i \in 1..Len(outcomes) |->
        ConversionRecord(outcomes[i].index, StatusOf(outcomes[i]), outcomes[i].error)]

\* Lines 203-219: gather has every coroutine's result; build and return the
\* list.  In a run started by BatchTab the list is returned to _generate_task
\* (lines 237-267), which adds one record per Outcome to the ledger that
\* self.csv_processor names then, saves it, clears is_generating and ends.
Gather ==
    /\ phase = "running"
    /\ \A t \in Pos : pc[t] = "done"
    /\ processed_results' = ProcessResults
    /\ phase' = "returned"
    /\ csv_records' = IF OwnedByBatchTab
                        THEN csv_records \o ResultRecords(ProcessResults)
                        ELSE csv_records
    /\ is_generating' = IF OwnedByBatchTab THEN FALSE ELSE is_generating
    /\ threads' = IF OwnedByBatchTab THEN threads - 1 ELSE threads
    /\ UNCHANGED << pure_call, dirs, rows, self_tasks, run_rows, engine, reset_view, cancelled, runs, args, semaphore,
                    completed, pc, locals, results, progress, calls, cancel_view >>

\* cleanup(): pass
Cleanup == UNCHANGED vars

(* ----------------- functions checked on their own --------------------- *)
\* Everything but pure_call.
program == << voice, rate, volume, pitch, cancelled, phase, runs, tasks, max_retries,
              max_concurrent, has_callback, semaphore, completed, pc, attempt, last_error,
              voices_tried, results, processed_results, progress, calls, rows, self_tasks,
              csv_records, run_rows, is_generating, threads, dirs, cancel_view,
              reset_view >>

\* The texts handed to _get_text_preview: every length up to MaxTextLen, the
\* character at position i being the last digit of i.
PreviewTexts == { [i \in 1..n |-> Digits(i % 10)[1]] : n \in 0..MaxTextLen }

\* The file_path values handed to process_output_path: the strings of
\* '/', '.' and 'a' up to MaxHintLen characters, the empty one included.
Hints == UNION { [1..n -> { "/", ".", "a" }] : n \in 0..MaxHintLen }

\* A call about to be made: _get_text_preview(text) with the default
\* max_length, process_output_path(text, index, 'output_audio'), or
\* add_record for the Outcome of a task with that text.
PureCall(fn, text, index) ==
    [fn |-> fn, text |-> text, index |-> index, returned |-> FALSE, value |-> << >>]

PureCalls ==
    { PureCall(fn, text, 0) : fn \in { "get_text_preview", "add_record" },
                               text \in PreviewTexts }
      \cup { PureCall("process_output_path", hint, index) :
                 hint \in Hints, index \in 1..MaxOrdinal }

PureInit == Constructed /\ pure_call \in PureCalls

\* TTSGenerator._get_text_preview(text) returns.
GetTextPreview ==
    /\ pure_call.fn = "get_text_preview" /\ ~pure_call.returned
    /\ pure_call' = [pure_call EXCEPT !.returned = TRUE,
                                      !.value = get_text_preview(pure_call.text, MAX_LENGTH)]
    /\ UNCHANGED program

\* FileManager.process_output_path(file_path, i, config.output_dir) returns.
ProcessOutputPath ==
    /\ pure_call.fn = "process_output_path" /\ ~pure_call.returned
    /\ pure_call' = [pure_call EXCEPT !.returned = TRUE,
              !.value = process_output_path(pure_call.text, pure_call.index,
                                            DEFAULT_OUTPUT_DIR)]
    /\ UNCHANGED program

\* BatchTab._generate_task, lines 244-252, and CSVProcessor.add_record, line
\* 119: the record of an Outcome is made from the Outcome's text_preview;
\* value is the text_preview of the record.
AddRecordPreview ==
    /\ pure_call.fn = "add_record" /\ ~pure_call.returned
    /\ pure_call' = [pure_call EXCEPT !.returned = TRUE,
              !.value = add_record_preview(get_text_preview(pure_call.text, MAX_LENGTH))]
    /\ UNCHANGED program

PureNext == GetTextPreview \/ ProcessOutputPath \/ AddRecordPreview

PureSpec == PureInit /\ [][PureNext]_vars

(* ------------------------------- system ------------------------------- *)
Next ==
    \/ ~OwnedByBatchTab /\ Cancel /\ UNCHANGED is_generating
    \/ OnCancel
    \/ ~OwnedByBatchTab /\ Reset
    \/ Cleanup
    \/ \E retries \in 0..MaxRetries : StartAudio("Hello", OutputPathOf(2), retries)
    \/ EnterAudio
    \/ \E batch \in Batches, limit \in 0..MaxConcurrent, callback \in BOOLEAN :
          StartBatch(batch, limit, callback)
    \/ \E records \in Rows, config \in PanelConfigs : OnGenerate(records, config)
    \/ \E limit \in 0..MaxConcurrent : GenerateTask(limit)
    \/ \E t \in Pos : Admit(t)
    \/ \E t \in Pos : Enter(t)
    \/ \E t \in Pos : StartCall(t)
    \/ \E t \in Pos : CallOk(t)
    \/ \E t \in Pos : CallFail(t, ClientError(CurrentVoice(t)))
    \/ \E t \in Pos : Wake(t)
    \/ Gather

Spec == Init /\ [][Next]_vars

\* The event loop runs every coroutine that is ready (a free slot for the
\* first waiter, a finished sleep, a result to return), and every client
\* call eventually returns or raises; cancel(), reset() and new calls of the
\* engine are up to the caller.
Fairness ==
    /\ \A t \in 1..MaxTasks :
          /\ WF_vars(t \in Pos /\ Admit(t))
          /\ WF_vars(t \in Pos /\ Enter(t))
          /\ WF_vars(t \in Pos /\ StartCall(t))
          /\ WF_vars(t \in Pos /\ (CallOk(t) \/ CallFail(t, ClientError(CurrentVoice(t)))))
          /\ WF_vars(t \in Pos /\ Wake(t))
    /\ WF_vars(EnterAudio)
    /\ WF_vars(Gather)

FairSpec == Init /\ [][Next]_vars /\ Fairness

(* ------------------------------ claims -------------------------------- *)
IndexesOf(seq) == { seq[p].index : p \in 1..Len(seq) }
CountIndex(seq, i) == Cardinality({ p \in 1..Len(seq) : seq[p].index = i })
Holders == { t \in Pos : pc[t] \in {"admitted", "call", "inflight", "sleep"} }
CancelledResult(t) == TTSResult(tasks[t].index, tasks[t].output_path, FALSE, TASK_CANCELLED)
SuccessResult(t) == TTSResult(tasks[t].index, tasks[t].output_path, TRUE, NO_ERROR)
\* The calls of progress_callback that report task t.
ReportsOf(t) == { k \in 1..Len(progress) : progress[k].result.index = tasks[t].index }

\* C1: the list batch_generate returns has exactly one Outcome per task: its
\* length is len(tasks) and every index occurs in it as often as among the
\* tasks, whatever succeeded, failed, faulted or was cancelled.
C1_Completeness ==
    phase = "returned" =>
        /\ Len(processed_results) = Len(tasks)
        /\ \A i \in IndexesOf(tasks) \cup IndexesOf(processed_results) :
              CountIndex(processed_results, i) = CountIndex(tasks, i)

\* A cancelled run of two tasks has returned, one task raised, one was cancelled.
C1_Witness ==
    /\ phase = "returned" /\ Len(tasks) = 2 /\ cancelled
    /\ \E t \in Pos : results[t].kind = "exception"
    /\ \E t \in Pos : processed_results[t].error = TASK_CANCELLED

\* C2: with a limit of at least 1, the tasks holding a slot (admitted, with
\* a client call pending, or in backoff) are never more than max_concurrent,
\* and the semaphore counts exactly the free slots: a task is admitted only
\* when one is free.
C2_ConcurrencyCap ==
    (phase = "running" /\ max_concurrent >= 1) =>
        /\ Cardinality(Holders) <= max_concurrent
        /\ semaphore = max_concurrent - Cardinality(Holders)

\* The cap is reached: one slot, a call in flight, another task waiting.
C2_Witness ==
    /\ phase = "running" /\ max_concurrent = 1
    /\ \E t, u \in Pos : pc[t] = "inflight" /\ pc[u] = "waiting"

\* C3: when batch_generate has returned, a task whose coroutine raised
\* (makedirs or the progress callback) has a failed Outcome with its own
\* index and destination and the exception's message as error, and every
\* other task has the Outcome its own coroutine returned.
C3_FaultBecomesOutcome ==
    phase = "returned" =>
        \A t \in Pos :
            IF results[t].kind = "exception"
              THEN /\ results[t].exc \in {MAKEDIRS_FAULT, CALLBACK_FAULT}
                   /\ processed_results[t] =
                        TTSResult(tasks[t].index, tasks[t].output_path, FALSE, results[t].exc)
              ELSE /\ results[t].kind = "value"
                   /\ processed_results[t] = results[t].value
                   /\ results[t].value.index = tasks[t].index
                   /\ results[t].value.output_path = tasks[t].output_path

\* The batch returned although makedirs raised for one task, and the other
\* task succeeded.
C3_Witness ==
    /\ phase = "returned"
    /\ \E t, u \in Pos :
          /\ results[t] = Raised(MAKEDIRS_FAULT)
          /\ processed_results[t].error = MAKEDIRS_FAULT
          /\ processed_results[u] = SuccessResult(u)


ReportCarries(t, r) == \E k \in ReportsOf(t) : progress[k].result = r
FaultResult(t, msg) == TTSResult(tasks[t].index, tasks[t].output_path, FALSE, msg)
LastCall(t) == calls[t][Len(calls[t])]

\* What the engine yields for a task that ended with the result r built by
\* process_task: r was reported to the callback (if there is one), and the
\* coroutine returned r, or the callback raised and the returned list holds
\* the failed Outcome with the callback's exception message instead.
YieldsBuilt(t, r) ==
    /\ pc[t] = "done"
    /\ has_callback => ReportCarries(t, r)
    /\ \/ results[t] = Returned(r)
       \/ has_callback /\ results[t] = Raised(CALLBACK_FAULT)
    /\ phase = "returned" =>
          processed_results[t] =
              IF results[t].kind = "exception" THEN FaultResult(t, CALLBACK_FAULT) ELSE r

\* C4: when a run with a progress callback has returned, the callback was
\* invoked exactly once for every task of the batch (as claimed; the code
\* skips the callback for a task whose processing raised before line 193).
C4_ProgressOncePerTask ==
    (phase = "returned" /\ has_callback) =>
        \A t \in Pos : Cardinality(ReportsOf(t)) = 1

\* C5: when a run of n >= 1 tasks with a progress callback has returned, the
\* callback saw completed = 1, 2, ..., n in this order, always with total = n
\* (as claimed; a task that raised is not counted, so n is not reached).
C5_ProgressCounts ==
    (phase = "returned" /\ has_callback /\ Len(tasks) >= 1) =>
        /\ Len(progress) = Len(tasks)
        /\ \A k \in 1..Len(progress) :
              progress[k].completed = k /\ progress[k].total = Len(tasks)

\* C6 as claimed: the flag was set before the run started and was not reset;
\* when the run has returned every Outcome is the cancelled Outcome and no
\* client call was made.
C6_CancelBeforeRun ==
    (phase = "returned" /\ cancelled) =>
        \A t \in Pos : cancel_view[t] = "before_run" =>
            calls[t] = << >> /\ processed_results[t] = CancelledResult(t)

\* C6 amended: in a run started with the flag set, as long as reset() is not
\* called the flag stays set, no task makes a client call or enters the
\* retry loop, every task builds and reports the cancelled Outcome, and the returned
\* list holds it, or the failed Outcome with the callback's exception
\* message for a task whose progress callback raised.
C6_CancelBeforeRunAmended ==
    \A t \in Pos : cancel_view[t] = "before_run" =>
        /\ cancelled
        /\ calls[t] = << >>
        /\ pc[t] \in {"waiting", "admitted", "done"}
        /\ pc[t] = "done" => YieldsBuilt(t, CancelledResult(t))

\* A run of two tasks started after cancel() has returned: one Outcome is
\* the cancelled one, the other carries the callback's exception message.
C6_Witness ==
    /\ phase = "returned" /\ Len(tasks) = 2
    /\ \A t \in Pos : cancel_view[t] = "before_run"
    /\ \E t, u \in Pos :
          /\ processed_results[t] = CancelledResult(t)
          /\ processed_results[u] = FaultResult(u, CALLBACK_FAULT)

C8_NoCallAfterCancel ==
    (phase = "running" /\ cancelled) =>
        \A t \in Pos : pc[t] = "inflight" => cancel_view[t] = "inflight"

\* C8 amended: while the flag stands no task passes the check at the head of
\* an attempt, so no new attempt begins; the only client calls started after
\* cancel() are those of tasks that had passed that check but not yet called
\* the client when the flag was set, one call each.
C8_NoNewAttemptAfterCancel ==
    (phase = "running" /\ cancelled) =>
        \A t \in Pos :
            /\ pc[t] = "call" => cancel_view[t] = "call"
            /\ pc[t] = "inflight" => cancel_view[t] \in {"called", "inflight"}

\* A task had passed the check of line 91 when cancel() set the flag, and
\* then started its client call.
C8_Witness ==
    /\ phase = "running" /\ cancelled
    /\ \E t \in Pos : cancel_view[t] = "called" /\ pc[t] = "inflight"

\* C9 as claimed: a call in flight at cancel() that succeeded gives the
\* task the succeeded Outcome with empty error in the returned list.
C9_InflightCallCompletes ==
    (phase = "returned" /\ cancelled) =>
        \A t \in Pos : (cancel_view[t] = "inflight" /\ LastCall(t).state = "ok") =>
            processed_results[t] = SuccessResult(t)

\* C9 amended: no client call is ever abandoned (a pending call belongs to a
\* task that is still awaiting it), and a call in flight at cancel() that
\* succeeds (no reset() since) makes the task build and report the succeeded
\* Outcome with empty error; the returned list holds it, or the failed
\* Outcome with the callback's exception message if the progress callback
\* raised.
C9_InflightCallCompletesAmended ==
    \A t \in Pos :
        /\ \A k \in 1..Len(calls[t]) :
              calls[t][k].state = "pending" => (k = Len(calls[t]) /\ pc[t] = "inflight")
        /\ (cancelled /\ cancel_view[t] = "inflight" /\ LastCall(t).state = "ok") =>
              YieldsBuilt(t, SuccessResult(t))

\* The call in flight at cancel() succeeded and the run returned with the
\* succeeded Outcome for that task.
C9_Witness ==
    /\ phase = "returned"
    /\ \E t \in Pos :
          /\ cancel_view[t] = "inflight"
          /\ LastCall(t).state = "ok"
          /\ processed_results[t] = SuccessResult(t)

\* C10: a client call that succeeded is the last call of its task: the task
\* has ended, the result it built is succeeded with empty error, and no call
\* follows it (so a success of attempt 0 means exactly one call).
C10_FirstSuccessWins ==
    \A t \in Pos : \A k \in 1..Len(calls[t]) :
        calls[t][k].state = "ok" =>
            /\ k = Len(calls[t])
            /\ pc[t] = "done"
            /\ \/ results[t] = Returned(SuccessResult(t))
               \/ results[t] = Raised(CALLBACK_FAULT) /\ ReportCarries(t, SuccessResult(t))

\* One task succeeded at attempt 0 with a single call, another after a
\* failed call.
C10_Witness ==
    /\ phase = "returned"
    /\ \E t, u \in Pos :
          /\ Len(calls[t]) = 1 /\ calls[t][1].state = "ok"
          /\ Len(calls[u]) = 2 /\ calls[u][1].state = "failed" /\ calls[u][2].state = "ok"
          /\ processed_results[u] = SuccessResult(u)

\* The voices of FALLBACK_VOICES.
FallbackSet == { FALLBACK_VOICES[i] : i \in 1..Len(FALLBACK_VOICES) }
\* The voices passed to the client for task t, in call order.
VoicesCalled(t) == [k \in 1..Len(calls[t]) |-> calls[t][k].voice]
\* The results built for task t from what generate_audio_async returned:
\* the one its coroutine returned and the ones the progress callback got.
BuiltResults(t) ==
    (IF results[t].kind = "value" THEN { results[t].value } ELSE {})
        \cup { progress[k].result : k \in ReportsOf(t) }

\* C11: with a primary voice A outside the fallback list, the calls of a
\* task use A, then the fallbacks in list order; when the calls with A and
\* with the first fallback B failed and the call with the second fallback C
\* succeeded, the voices passed to the client are exactly A, B, C, the task
\* has ended and the result built for it is succeeded.
C11_FallbackRotation ==
    \A t \in Pos : voice \notin FallbackSet =>
        /\ \A k \in 1..Len(calls[t]) :
              calls[t][k].voice = IF k = 1 THEN voice ELSE FALLBACK_VOICES[k - 1]
        /\ ( /\ Len(calls[t]) >= 3
             /\ calls[t][1].state = "failed"
             /\ calls[t][2].state = "failed"
             /\ calls[t][3].state = "ok" ) =>
                /\ VoicesCalled(t) = << voice, FALLBACK_VOICES[1], FALLBACK_VOICES[2] >>
                /\ pc[t] = "done"
                /\ BuiltResults(t) # {}
                /\ \A r \in BuiltResults(t) : r.success

\* A batch run returned in which a task of an engine with a voice outside
\* the list failed twice and succeeded with the second fallback.
C11_Witness ==
    /\ phase = "returned" /\ voice \notin FallbackSet
    /\ \E t \in Pos :
          /\ Len(calls[t]) = 3
          /\ calls[t][1].state = "failed" /\ calls[t][2].state = "failed"
          /\ calls[t][3] = ClientCall(FALLBACK_VOICES[2], "ok", NO_ERROR)
          /\ processed_results[t].success

\* Every distinct voice among the primary and the fallbacks.
AllVoices == { voice } \cup FallbackSet
\* The error text is the fixed all-voices-failed text followed by a message.
IsAllVoicesFailed(error) ==
    Len(error) = 2 /\ error[1] = AllVoicesFailed(NO_ERROR)[1]

\* C12: a task of a batch whose client calls all failed, with the flag never
\* seen (its result is the all-voices-failed one), has a result with
\* succeeded = false, and its client calls are as many as the distinct voices
\* among the primary and the fallbacks, each voice called once (as claimed;
\* process_task runs the loop with max_retries = 3, so at most three of them
\* are tried).
C12_Exhaustion ==
    phase \in {"running", "returned"} =>
        \A t \in Pos : \A r \in BuiltResults(t) :
            (pc[t] = "done" /\ IsAllVoicesFailed(r.error)) =>
                /\ ~r.success
                /\ \A k \in 1..Len(calls[t]) : calls[t][k].state = "failed"
                /\ Len(calls[t]) = Cardinality(AllVoices)
                /\ { calls[t][k].voice : k \in 1..Len(calls[t]) } = AllVoices

\* C13: within one call of generate_audio_async, whatever the primary voice
\* and max_retries, no voice is passed to the client twice: the first call
\* uses the primary, every later call a fallback other than the primary, the
\* voice of the current attempt k > 0 is fallbacks[(k-1) mod len(fallbacks)],
\* and the voices called are the voices recorded as tried (the last of them
\* not yet called while the task is between the check and the call).
C13_NoVoiceTwice ==
    \A t \in Pos :
        /\ \A j, k \in 1..Len(calls[t]) : j < k => calls[t][j].voice # calls[t][k].voice
        /\ \A k \in 1..Len(calls[t]) :
              IF k = 1 THEN calls[t][k].voice = voice
              ELSE calls[t][k].voice \in FallbackSet \ { voice }
        /\ pc[t] \in {"call", "inflight", "sleep"} =>
              /\ attempt[t] < max_retries
              /\ voices_tried[t][Len(voices_tried[t])] =
                    IF attempt[t] = 0 THEN voice
                    ELSE FALLBACK_VOICES[((attempt[t] - 1) % Len(FALLBACK_VOICES)) + 1]
              /\ VoicesCalled(t) =
                    IF pc[t] = "call"
                      THEN SubSeq(voices_tried[t], 1, Len(voices_tried[t]) - 1)
                      ELSE voices_tried[t]

\* A single call with max_retries = 6 and a primary outside the list ended
\* after five failed calls: attempt 5 selected fallbacks[0] again and was
\* skipped without a client call.
C13_Witness ==
    /\ phase = "single" /\ max_retries = 6 /\ voice \notin FallbackSet
    /\ pc[1] = "done" /\ Len(calls[1]) = 5
    /\ \A k \in 1..5 : calls[1][k].state = "failed"
    /\ results[1].kind = "value" /\ IsAllVoicesFailed(results[1].value.error)

\* The message of the most recent failed client call of task t ("" if the
\* task made no call).
LastMessage(t) == IF calls[t] = << >> THEN NO_ERROR ELSE LastCall(t).error

\* C14: a result built from what generate_audio_async returned is succeeded,
\* or the cancelled one, or (the loop ended without success and without
\* seeing the flag) it has succeeded = false, every client call of the task
\* failed, and its error is the fixed all-voices-failed text followed by the
\* message of the most recent failed call.
C14_LastErrorReported ==
    \A t \in Pos : \A r \in BuiltResults(t) :
        \/ r.success
        \/ r.error = TASK_CANCELLED
        \/ /\ ~r.success
           /\ pc[t] = "done"
           /\ \A k \in 1..Len(calls[t]) : calls[t][k].state = "failed"
           /\ r.error = << "all voices failed, last error: ", LastMessage(t) >>

\* A batch run returned with a task whose two or more calls all failed: the
\* error carries the message of the last call, which differs from the first.
C14_Witness ==
    /\ phase = "returned"
    /\ \E t \in Pos :
          /\ Len(calls[t]) >= 2
          /\ LastCall(t).error # calls[t][1].error
          /\ processed_results[t].error =
                << "all voices failed, last error: ", LastCall(t).error >>

\* Every Outcome the engine has produced: the entries of the returned list,
\* the results passed to the progress callback, and the results returned by
\* process_task or built by generate_audio.
Outcomes ==
    { processed_results[i] : i \in 1..Len(processed_results) }
        \cup { progress[k].result : k \in 1..Len(progress) }
        \cup { results[t].value : t \in { u \in Pos : results[u].kind = "value" } }

\* C15: every Outcome produced by the engine with succeeded = true has the
\* empty string as error.
C15_SuccessHasNoError ==
    \A r \in Outcomes : r.success => r.error = NO_ERROR

\* The progress callback got a succeeded Outcome with empty error for a task
\* whose first call had failed, and the run returned it next to a failed one.
C15_Witness ==
    /\ phase = "returned" /\ has_callback
    /\ \E t, u \in Pos :
          /\ Len(calls[t]) >= 2 /\ calls[t][1].state = "failed"
          /\ ReportCarries(t, SuccessResult(t))
          /\ processed_results[t] = SuccessResult(t)
          /\ ~processed_results[u].success /\ processed_results[u].error # NO_ERROR

\* C16: the list batch_generate returns is in input order, whatever order
\* the tasks finished in: the Outcome at position i has the index and the
\* output_path of the task at position i.
C16_InputOrder ==
    phase = "returned" =>
        /\ Len(processed_results) = Len(tasks)
        /\ \A i \in 1..Len(tasks) :
              /\ processed_results[i].index = tasks[i].index
              /\ processed_results[i].output_path = tasks[i].output_path

\* The second task of a batch was reported finished before the first, and
\* the returned list has the first task's Outcome first.
C16_Witness ==
    /\ phase = "returned" /\ has_callback /\ Len(tasks) = 2 /\ Len(progress) = 2
    /\ progress[1].result.index = tasks[2].index
    /\ progress[2].result.index = tasks[1].index
    /\ processed_results[1].index = tasks[1].index
    /\ processed_results[2].index = tasks[2].index

\* BatchTab._on_generate, lines 215-220: self.tts_generator becomes a new
\* engine instance, whose constructor (line 58) starts it with the flag clear.
NewEngine ==
    \E records \in Rows, config \in PanelConfigs :
        TasksOf(records) # << >> /\ OnGenerate(records, config)

\* C17: cancel() is one-way and idempotent: a step of cancel() leaves the
\* flag set, cancel() on a set flag changes nothing, and a step after which
\* the set flag of an engine instance is clear is a step of reset():
\* batch_generate, generate_audio_async, generate_audio and cleanup never
\* clear it (the only other way to a clear flag is another engine instance).
C17_CancelOneWay ==
    [][ /\ Cancel => cancelled'
        /\ (cancelled /\ Cancel) => UNCHANGED vars
        /\ (cancelled /\ ~cancelled' /\ ~NewEngine) => Reset ]_vars

\* The flag, set before the second call of batch_generate, is still set
\* after that run has returned.
C17_Witness ==
    /\ cancelled /\ runs = 2 /\ phase = "returned" /\ Len(tasks) >= 1
    /\ \A t \in Pos : cancel_view[t] = "before_run" /\ pc[t] = "done"

\* C18: after a batch run has returned (with the flag set or clear), reset()
\* leaves the flag clear, and the batch_generate started then is a normal run
\* for as long as cancel() is not called again: the flag stays clear, a task
\* that has ended has called the client (or os.makedirs raised for it), and
\* no result built, reported or returned is the cancelled Outcome.
C18_ResetThenRun ==
    /\ reset_view \in {"reset", "cleared"} => (~cancelled /\ phase = "returned")
    /\ reset_view \in {"rerun", "rerun_cleared"} =>
          /\ ~cancelled
          /\ phase \in {"running", "returned"}
          /\ \A t \in Pos :
                /\ \A r \in BuiltResults(t) : r.error # TASK_CANCELLED
                /\ pc[t] = "done" =>
                      (calls[t] # << >> \/ results[t] = Raised(MAKEDIRS_FAULT))
          /\ \A i \in 1..Len(processed_results) :
                processed_results[i].error # TASK_CANCELLED

\* A run had returned with the flag set and reset() cleared it; the run
\* started then has returned, both tasks succeeded.
C18_Witness ==
    /\ reset_view = "rerun_cleared" /\ runs = 2 /\ phase = "returned" /\ Len(tasks) = 2
    /\ \A t \in Pos : calls[t] # << >> /\ processed_results[t] = SuccessResult(t)

\* C19: with max_concurrent >= 1, every client call eventually returning and
\* the event loop running every ready coroutine, a running batch eventually
\* has an Outcome for every task and batch_generate returns, whenever and
\* however often cancel() and reset() are called during the run.
C19_BatchDrains ==
    (phase = "running" /\ max_concurrent >= 1) ~>
        (phase = "returned" /\ \A t \in Pos : pc[t] = "done")

\* A run with one slot returned after cancel() came while the first task's
\* call was in flight and the second task waited; the call failed.
C19_Witness ==
    /\ phase = "returned" /\ cancelled /\ max_concurrent = 1 /\ Len(tasks) = 2
    /\ cancel_view[1] = "inflight" /\ LastCall(1).state = "failed"
    /\ cancel_view[2] = "waiting"
    /\ Len(processed_results) = 2

\* The ledger records of row i.
RecordsOfRow(i) == { k \in 1..Len(csv_records) : csv_records[k].index = i }

C21_EmptyBatch ==
    (phase \in {"running", "returned"} /\ tasks = << >>) =>
        /\ pc = << >> /\ results = << >> /\ calls = << >>
        /\ progress = << >> /\ completed = 0
        /\ phase = "returned" => processed_results = << >>

\* batch_generate returned from a run on an empty list with a callback and
\* a limit of 0, on an engine whose flag is set.
C21_Witness ==
    /\ phase = "returned" /\ tasks = << >> /\ processed_results = << >>
    /\ has_callback /\ max_concurrent = 0 /\ cancelled /\ ~OwnedByBatchTab

\* C22: in a batch run, once the progress callback has been invoked for a
\* task, the task has finished: generate_audio_async has returned for it (or
\* was never called, for a cancelled task), none of its client calls is
\* pending, and from then on it makes no client call.
C22_ReportedTaskFinished ==
    [][ \A t \in 1..Len(tasks') :
          ReportsOf(t)' # {} =>
              /\ pc'[t] = "done"
              /\ \A k \in 1..Len(calls'[t]) : calls'[t][k].state # "pending"
              /\ (t \in Pos /\ ReportsOf(t) # {}) => calls'[t] = calls[t] ]_vars

\* The callback was invoked for a task whose call succeeded while the call
\* of the other task is still in flight.
C22_Witness ==
    /\ phase = "running" /\ has_callback /\ Len(tasks) = 2
    /\ \E t, u \in Pos :
          /\ ReportsOf(t) # {} /\ pc[t] = "done"
          /\ calls[t] # << >> /\ calls[t][Len(calls[t])].state = "ok"
          /\ ReportsOf(u) = {} /\ pc[u] = "inflight"

C30_SkippedAttemptsCount ==
    phase \in {"running", "returned"} =>
        \A t \in Pos : \A r \in BuiltResults(t) :
            (pc[t] = "done" /\ IsAllVoicesFailed(r.error)) =>
                /\ max_retries = 3 /\ Len(FALLBACK_VOICES) = 4
                /\ \A k \in 1..Len(calls[t]) : calls[t][k].state = "failed"
                /\ Len(calls[t]) =
                      IF voice \in { FALLBACK_VOICES[1], FALLBACK_VOICES[2] } THEN 2 ELSE 3
                /\ r = TTSResult(tasks[t].index, tasks[t].output_path, FALSE,
                                 AllVoicesFailed(LastMessage(t)))

\* A batch run of an engine whose primary voice is fallbacks[1] returned
\* the all-voices-failed Outcome for a task after two failed calls, the
\* primary and fallbacks[0].
C30_Witness ==
    /\ phase = "returned" /\ voice = FALLBACK_VOICES[2]
    /\ \E t \in Pos :
          /\ Len(calls[t]) = 2
          /\ calls[t][1].voice = voice /\ calls[t][2].voice = FALLBACK_VOICES[1]
          /\ IsAllVoicesFailed(processed_results[t].error)

\* ConversionResult.success_count, failed_count and total_count.
success_count == Cardinality({ k \in 1..Len(csv_records) : csv_records[k].status = "success" })
failed_count == Cardinality({ k \in 1..Len(csv_records) : csv_records[k].status = "failed" })
total_count == Len(csv_records)

\* C24: when a batch started by BatchTab completes (batch_generate returns
\* and _generate_task records its Outcomes), the ledger holds exactly one
\* record for every row of the file the batch was built from, the failed
\* empty-text record for a row without text and the record of its Outcome
\* for every other row, and success_count + failed_count = total_count.
LedgerComplete ==
    /\ total_count = Len(run_rows)
    /\ \A i \in 1..Len(run_rows) : Cardinality(RecordsOfRow(i)) = 1
    /\ csv_records = SkippedRecords(run_rows) \o ResultRecords(processed_results)
    /\ success_count + failed_count = total_count

C24_LedgerComplete ==
    [][ (OwnedByBatchTab /\ Gather) => LedgerComplete' ]_vars

\* C26: the voice, rate, volume and pitch of an engine instance are set by
\* its constructor only: no step of cancel(), reset(), cleanup(),
\* batch_generate or generate_audio_async changes them, and every client
\* call the instance has made carries its rate, volume and pitch (no pitch
\* argument for 'default'), the first call of every task its primary voice.
C26_ConfigShared ==
    [][ /\ UNCHANGED << voice, rate, volume, pitch >> \/ NewEngine
        /\ \A t \in 1..Len(calls') : \A k \in 1..Len(calls'[t]) :
              /\ calls'[t][k].rate = rate'
              /\ calls'[t][k].volume = volume'
              /\ calls'[t][k].pitch = (IF pitch' = "default" THEN "" ELSE pitch')
              /\ k = 1 => calls'[t][k].voice = voice' ]_vars

\* An engine with a rate, a volume and a pitch of its own ran two tasks;
\* one succeeded with the primary voice, the other with the first fallback
\* voice it tried, and that call carried the same rate, volume and pitch.
C26_Witness ==
    /\ phase = "returned" /\ Len(tasks) = 2
    /\ voice = "en-US-AriaNeural" /\ rate = "-22%" /\ volume = "+50%" /\ pitch = "high"
    /\ \E t, u \in Pos :
          /\ Len(calls[t]) = 1 /\ calls[t][1].state = "ok"
          /\ Len(calls[u]) = 2 /\ calls[u][2].state = "ok"
          /\ calls[u][2].voice # voice
          /\ calls[u][2].rate = "-22%" /\ calls[u][2].pitch = "high"

\* C23: in a batch built by BatchTab no two tasks have the same
\* destination: the output_path values of self.tasks are pairwise distinct,
\* also when rows of the file carry the same file_path.
C23_DistinctDestinations ==
    \A i, j \in 1..Len(self_tasks) :
        i # j => self_tasks[i].output_path # self_tasks[j].output_path

\* C29: creating the destination directory is idempotent: a task that
\* reaches os.makedirs (line 85) for a directory that already exists, made
\* for an earlier task or by an earlier run, goes on to its first attempt
\* and leaves the directories as they are, and no Outcome and no exception
\* collected by gather is the "file exists" error of os.makedirs.
C29_MakedirsIdempotent ==
    [][ /\ \A t \in Pos :
              (/\ ~IsCancelled /\ MakedirsCalled(t) /\ OutputDir(t) \in dirs
               /\ Enter(t) \/ (t = 1 /\ EnterAudio))
                 => (results'[t].kind # "exception" /\ dirs' = dirs)
        /\ \A t \in 1..Len(results') : results'[t].exc # FILE_EXISTS_FAULT
        /\ \A t \in 1..Len(processed_results') :
              processed_results'[t].error # FILE_EXISTS_FAULT ]_vars

\* Two tasks of one batch with the same destination directory, which
\* existed before either reached os.makedirs, are both in a client call.
C29_Witness ==
    /\ phase = "running" /\ Len(tasks) = 2
    /\ MakedirsCalled(1) /\ OutputDir(1) = OutputDir(2) /\ OutputDir(1) \in dirs
    /\ tasks[1].output_path # tasks[2].output_path
    /\ pc[1] = "inflight" /\ pc[2] = "inflight"

\* C27: the text preview of an Outcome, _get_text_preview(text), is the
\* text itself when the text has at most 50 characters; otherwise it is the
\* first 50 characters of the text followed by "...", 53 characters in all;
\* it is never longer than 53 characters.
C27_TextPreview ==
    (pure_call.fn = "get_text_preview" /\ pure_call.returned) =>
        LET text == pure_call.text
            preview == pure_call.value
        IN  /\ Len(text) <= 50 => preview = text
            /\ Len(text) > 50 =>
                  /\ Len(preview) = 53
                  /\ \A i \in 1..50 : preview[i] = text[i]
                  /\ \A i \in 51..53 : preview[i] = "."
            /\ Len(preview) <= 53

\* The preview of a text of 51 characters has been returned: 53 characters,
\* the last character of the text is not in it.
C27_Witness ==
    /\ pure_call.fn = "get_text_preview" /\ pure_call.returned
    /\ Len(pure_call.text) = 51
    /\ Len(pure_call.value) = 53
    /\ pure_call.value[50] = pure_call.text[50]
    /\ pure_call.value[51] # pure_call.text[51]

\* C28: process_output_path returns a path whose extension is the
\* extension of file_path, and '.mp3' when file_path has none; for an empty
\* file_path it returns default_output_dir/audio_<index as 4 digits>.mp3.
C28_ExtensionKept ==
    (pure_call.fn = "process_output_path" /\ pure_call.returned) =>
        LET file_path == pure_call.text
            output_path == pure_call.value
        IN  IF file_path = << >>
              THEN output_path = DEFAULT_OUTPUT_DIR \o << "/", "audio_" >>
                                   \o Format04d(pure_call.index) \o << ".", "mp3" >>
              ELSE PathSuffix(output_path) =
                      IF PathSuffix(file_path) = << >>
                        THEN << ".", "mp3" >> ELSE PathSuffix(file_path)

\* C31: when the loop of a task comes to the head of an iteration (line 91)
\* after a failed client call and the flag is set, the task ends there
\* without another call, and every result built for it has succeeded = false
\* and the fixed cancelled message, not the message of the failed call; a
\* step that ends a task with the all-voices-failed result is a step in which
\* no iteration saw the flag: the flag was clear, or no attempt index was
\* left (the loop ended without reading the flag again).
C31_CancelledAfterFailures ==
    [][ \A t \in Pos :
          /\ (Wake(t) /\ IsCancelled /\ attempt[t] + 1 < max_retries) =>
                /\ pc'[t] = "done"
                /\ BuiltResults(t)' # {}
                /\ \A r \in BuiltResults(t)' : ~r.success /\ r.error = TASK_CANCELLED
          /\ (tasks' = tasks /\ pc[t] # "done" /\ pc'[t] = "done") =>
                \A r \in BuiltResults(t)' :
                    IsAllVoicesFailed(r.error) =>
                        \/ ~IsCancelled
                        \/ (IF pc[t] = "sleep" THEN attempt[t] + 1 ELSE 0) >= max_retries ]_vars

\* A task of a batch made one client call, which failed; the flag was set
\* while it slept, and its result is the cancelled one.
C31_Witness ==
    /\ phase = "running" /\ cancelled
    /\ \E t \in Pos :
          /\ pc[t] = "done"
          /\ Len(calls[t]) = 1 /\ calls[t][1].state = "failed"
          /\ results[t] = Returned(CancelledResult(t))

\* C32 as claimed: for every task, the Outcome passed to the progress
\* callback has the succeeded flag and the error of the Outcome at the
\* task's position in the returned list, also when the callback raised.
C32_ReportedIsReturned ==
    (phase = "returned" /\ has_callback) =>
        \A t \in Pos : \A k \in ReportsOf(t) :
            /\ progress[k].result.success = processed_results[t].success
            /\ progress[k].result.error = processed_results[t].error

\* C32 amended: the Outcome passed to the progress callback for a task is
\* the Outcome at the task's position in the returned list, unless the
\* callback raised for the task: then the list holds, for the same index
\* and output_path, the failed Outcome with the callback's exception
\* message, whatever was reported.
C32_ReportedIsReturnedAmended ==
    (phase = "returned" /\ has_callback) =>
        \A t \in Pos : \A k \in ReportsOf(t) :
            IF results[t].kind = "exception"
              THEN /\ results[t].exc = CALLBACK_FAULT
                   /\ processed_results[t] = FaultResult(t, CALLBACK_FAULT)
              ELSE processed_results[t] = progress[k].result

\* Two tasks were reported as succeeded; the callback raised for the first,
\* whose Outcome in the returned list is failed, and the second one's is the
\* reported one.
C32_Witness ==
    /\ phase = "returned" /\ has_callback /\ Len(tasks) = 2
    /\ ReportCarries(1, SuccessResult(1)) /\ ReportCarries(2, SuccessResult(2))
    /\ processed_results[1] = FaultResult(1, CALLBACK_FAULT)
    /\ processed_results[2] = SuccessResult(2)

\* C33: a task that has ended holds no slot, however it ended: while a run
\* with a limit of at least 1 has a task waiting and fewer than
\* max_concurrent tasks between acquire and release, a slot is free for it
\* (also when all the others ended with an exception), and when
\* batch_generate has returned every slot is free again.
C33_SlotReleased ==
    /\ (phase = "running" /\ max_concurrent >= 1) =>
          /\ \A t \in Pos : results[t].kind = "exception" => t \notin Holders
          /\ ((\E u \in Pos : pc[u] = "waiting")
                 /\ Cardinality({ t \in Pos : pc[t] \notin {"waiting", "done"} }) < max_concurrent)
                => SemaphoreFree
    /\ phase = "returned" => semaphore = max_concurrent

\* One slot: the progress callback raised for the first task, the second
\* was admitted after it and os.makedirs raised for it; the run has returned
\* and the slot is free.
C33_Witness ==
    /\ phase = "returned" /\ max_concurrent = 1 /\ Len(tasks) = 2
    /\ results[1] = Raised(CALLBACK_FAULT)
    /\ results[2] = Raised(MAKEDIRS_FAULT)
    /\ semaphore = 1

\* C34: batch_generate with max_concurrent = 0 and at least one task does
\* not fail fast and does not return: every step taken while that call is
\* under way leaves it under way, with every task still waiting for a slot,
\* no result collected, no call of the client or of the progress callback,
\* and no list returned; cancel() does not end it either.
C34_ZeroLimitHangs ==
    [][ (phase = "running" /\ max_concurrent = 0 /\ tasks # << >>) =>
            /\ phase' = "running" /\ max_concurrent' = 0 /\ tasks' = tasks
            /\ \A t \in Pos :
                  pc'[t] = "waiting" /\ results'[t] = Pending /\ calls'[t] = << >>
            /\ progress' = << >>
            /\ processed_results' = << >> ]_vars

\* BatchTab started a batch of two tasks with max_concurrent = 0; cancel()
\* was called since, and both tasks still wait for a slot.
C34_Witness ==
    /\ OwnedByBatchTab /\ phase = "running" /\ max_concurrent = 0 /\ cancelled
    /\ Len(tasks) = 2 /\ has_callback
    /\ \A t \in Pos : pc[t] = "waiting" /\ results[t] = Pending
    /\ progress = << >>

\* C35: in BatchTab at most one thread of _generate_task is alive at any
\* time: no run is started while the thread of an earlier run, cancelled or
\* not, has not ended.
C35_OneThread == threads <= 1

\* C36: is_generating is true in every state in which a thread of
\* _generate_task is alive, also after _on_cancel while the run it cancelled
\* has not returned.
C36_GeneratingWhileThreadAlive == threads > 0 => is_generating

\* C37: the Outcomes a thread of _generate_task adds to the ledger are those
\* of a batch built from the rows that ledger was made for: when the run
\* returns, the ledger in place is the one of the click that started the run
\* and every record in it names one of its rows.
C37_LedgerOfOwnRun ==
    [][ (OwnedByBatchTab /\ Gather) =>
            /\ rows' = run_rows'
            /\ \A k \in 1..Len(csv_records') : csv_records'[k].index \in 1..Len(rows') ]_vars

\* C38: the text_preview of the ledger record made from an Outcome is the
\* Outcome's text_preview: add_record, cutting again what _get_text_preview
\* has cut, changes nothing, for every text.
C38_PreviewIdempotent ==
    (pure_call.fn = "add_record" /\ pure_call.returned) =>
        /\ pure_call.value = get_text_preview(pure_call.text, MAX_LENGTH)
        /\ add_record_preview(pure_call.value) = pure_call.value

\* The record of an Outcome whose text has 52 characters has been made: its
\* preview has 53 characters, the first 50 of the text and three dots.
C38_Witness ==
    /\ pure_call.fn = "add_record" /\ pure_call.returned
    /\ Len(pure_call.text) = 52
    /\ Len(pure_call.value) = 53
    /\ SubSeq(pure_call.value, 1, 50) = SubSeq(pure_call.text, 1, 50)
    /\ pure_call.value[53] = "."

====
